---- MODULE Spec2Model ----
(***************************************************************************)
(* A model of the PMW3610 optical sensor driver (src/src/pmw3610.c).       *)
(*                                                                         *)
(* The driver's state is struct pixart_data, the static accumulators of    *)
(* pmw3610_report_data, the interrupt line, the two work items and the     *)
(* kernel's uptime clock.  Every handler (the delayed init work, the GPIO  *)
(* callback, the trigger work, an attribute-set call) is one action.  The  *)
(* register access layer and the configuration functions are operators    *)
(* that thread a bus trace: the sequence of SPI transactions issued so far *)
(* by the running handler, each with the result the bus gave it.          *)
(***************************************************************************)
EXTENDS Integers, Sequences, FiniteSets, TLC

VARIABLES
    ready,            \* data->ready
    async_init_step,  \* data->async_init_step
    err,              \* data->err
    sw_smart_flag,    \* data->sw_smart_flag
    dx, dy,           \* static int64_t dx, dy of pmw3610_report_data
    last_smp_time,    \* static int64_t last_smp_time
    last_rpt_time,    \* static int64_t last_rpt_time
    cpi,              \* config->cpi (devicetree property, fixed at build)
    irq_enabled,      \* the interrupt line: GPIO_INT_LEVEL_ACTIVE or GPIO_INT_DISABLE
    init_work,        \* data->init_work: [pending, due]
    trigger_work,     \* data->trigger_work is queued
    now,              \* k_uptime_get(), in ms
    burst,            \* report cycles run within the current millisecond
    init_log,         \* the init steps whose function has been invoked, in order
    init_times,       \* the uptime at which each of them was invoked
    aux_written,      \* the last value a write to register 0x32 got through with, -1 if none
    automouse,        \* automouse_triggered, the layer, automouse_layer_timer, and
                      \* where the report path stands in activate_automouse_layer
    spi,              \* the bus shared by two threads: the transactions made, and
                      \* those each thread has still to make
    busTrace,         \* the bus transactions of the last handler
    events,           \* the input events of the last report cycle
    lastCall          \* the last handler: [op, ret, arg]

vars == << ready, async_init_step, err, sw_smart_flag, dx, dy, last_smp_time,
           last_rpt_time, cpi, irq_enabled, init_work, trigger_work, now, burst,
           init_log, init_times, aux_written, automouse, spi, busTrace, events,
           lastCall >>

----------------------------------------------------------------------------
(* Bounds of the model. *)

\* The uptime at which the clock stops: the bring-up ends at 265 ms at the earliest.
MaxTime == 268
\* Report cycles within one millisecond of uptime.
MaxBurst == 2
\* the report cycles that come to the automouse test before motion stops
MaxChecks == 3

----------------------------------------------------------------------------
(* errno values, negated by the code at each return. *)

EIO == 5
EBUSY == 16
EINVAL == 22
ENOTSUP == 134

(* enum pmw3610_init_step *)
ASYNC_INIT_STEP_POWER_UP == 0
ASYNC_INIT_STEP_CLEAR_OB1 == 1
ASYNC_INIT_STEP_CHECK_OB1 == 2
ASYNC_INIT_STEP_CONFIGURE == 3
ASYNC_INIT_STEP_COUNT == 4

(* Build configuration (Kconfig) and the constants of pmw3610.h. *)
CONFIG_PMW3610_INIT_POWER_UP_EXTRA_DELAY_MS == 5
CONFIG_PMW3610_REPORT_INTERVAL_MIN == 2
CONFIG_PMW3610_RUN_DOWNSHIFT_TIME_MS == 128
CONFIG_PMW3610_REST1_SAMPLE_TIME_MS == 40
CONFIG_PMW3610_REST1_DOWNSHIFT_TIME_MS == 9600
CONFIG_PMW3610_REST2_SAMPLE_TIME_MS == 100
CONFIG_PMW3610_REST2_DOWNSHIFT_TIME_MS == 300000
CONFIG_PMW3610_REST3_SAMPLE_TIME_MS == 500
CONFIG_PMW3610_AUTOMOUSE_TIMEOUT_MS == 3
CONFIG_PMW3610_SMART_ALGORITHM == TRUE
CONFIG_PMW3610_SWAP_XY == FALSE
CONFIG_PMW3610_INVERT_X == FALSE
CONFIG_PMW3610_INVERT_Y == FALSE

PMW3610_MIN_CPI == 200
PMW3610_MAX_CPI == 3200
PMW3610_PRODUCT_ID == 62
PMW3610_POWERUP_CMD_RESET == 90
PMW3610_SPI_CLOCK_CMD_ENABLE == 186
PMW3610_SPI_CLOCK_CMD_DISABLE == 181

PMW3610_REG_SPI_CLK_ON_REQ == "SPI_CLK_ON_REQ"
PMW3610_REG_POWER_UP_RESET == "POWER_UP_RESET"
PMW3610_REG_OBSERVATION == "OBSERVATION"
PMW3610_REG_PRODUCT_ID == "PRODUCT_ID"
PMW3610_REG_RES_STEP == "RES_STEP"
PMW3610_REG_RUN_DOWNSHIFT == "RUN_DOWNSHIFT"
PMW3610_REG_REST1_DOWNSHIFT == "REST1_DOWNSHIFT"
PMW3610_REG_REST2_DOWNSHIFT == "REST2_DOWNSHIFT"
PMW3610_REG_REST1_RATE == "REST1_RATE"
PMW3610_REG_REST2_RATE == "REST2_RATE"
PMW3610_REG_REST3_RATE == "REST3_RATE"
PMW3610_REG_MOTION_BURST == "MOTION_BURST"
\* a register selector set_downshift_time does not know
PMW3610_REG_PERFORMANCE == "PERFORMANCE"

INT16_MIN == -32768
INT16_MAX == 32767

----------------------------------------------------------------------------
(* The register access layer.  f is the set of the handler's transaction   *)
(* numbers (1, 2, ...) the bus fails; t is the trace of the transactions    *)
(* issued so far.  Every function returns [ret, t].                         *)
(*                                                                         *)
(* A local value that is used more than once is bound as the element of a  *)
(* singleton, Only({ e(w) : w \in {v} }), which evaluates v once.           *)

Only(S) == CHOOSE x \in S : TRUE

\* spi_transceive_dt / spi_write_dt: the result of the next transaction
SpiResult(f, t) == IF (Len(t) + 1) \in f THEN -EIO ELSE 0

BusOp(kind, addr, val, e) == [kind |-> kind, addr |-> addr, val |-> val, err |-> e]

pmw3610_read(f, t, addr, value) ==
    Only({ [ret |-> SpiResult(f, u),
            t |-> Append(u, BusOp("read", addr, value, SpiResult(f, u)))] : u \in {t} })

pmw3610_read_reg(f, t, addr, value) == pmw3610_read(f, t, addr, value)

pmw3610_write_reg(f, t, addr, value) ==
    Only({ [ret |-> SpiResult(f, u),
            t |-> Append(u, BusOp("write", addr, value, SpiResult(f, u)))] : u \in {t} })

\* the write of SPI_CLK_ON_REQ, its result dropped
ClockWrite(f, t, cmd) == pmw3610_write_reg(f, t, PMW3610_REG_SPI_CLK_ON_REQ, cmd).t

pmw3610_write(f, t, reg, val) ==
    Only({ IF w.ret # 0
           THEN [ret |-> w.ret, t |-> w.t]
           ELSE [ret |-> 0, t |-> ClockWrite(f, w.t, PMW3610_SPI_CLOCK_CMD_DISABLE)]
         : w \in { pmw3610_write_reg(f, ClockWrite(f, t, PMW3610_SPI_CLOCK_CMD_ENABLE),
                                     reg, val) } })

----------------------------------------------------------------------------
(* The configuration functions. *)

Uint8(v) == v % 256

CpiInRange(c) == ~((c > PMW3610_MAX_CPI) \/ (c < PMW3610_MIN_CPI))

\* Variant of set_cpi_writes: the loop without its break, err the last result.
RECURSIVE set_cpi_writes_nobreak(_, _, _, _, _)
set_cpi_writes_nobreak(f, t, addr, data, i) ==
    Only({ IF i = Len(data)
           THEN w
           ELSE set_cpi_writes_nobreak(f, w.t, addr, data, i + 1)
         : w \in { pmw3610_write_reg(f, t, addr[i], data[i]) } })

\* the for loop of set_cpi: stops at the first failed write, err is the last result
RECURSIVE set_cpi_writes(_, _, _, _, _)
set_cpi_writes(f, t, addr, data, i) ==
    Only({ IF w.ret # 0 \/ i = Len(data)
           THEN w
           ELSE set_cpi_writes(f, w.t, addr, data, i + 1)
         : w \in { pmw3610_write_reg(f, t, addr[i], data[i]) } })

set_cpi(f, t, c) ==
    IF ~CpiInRange(c)
    THEN [ret |-> -EINVAL, t |-> t]
    ELSE Only({ [ret |-> w.ret,
                 t |-> ClockWrite(f, w.t, PMW3610_SPI_CLOCK_CMD_DISABLE)]
              : w \in { set_cpi_writes(f, ClockWrite(f, t, PMW3610_SPI_CLOCK_CMD_ENABLE),
                                       << "0x7F", PMW3610_REG_RES_STEP, "0x7F" >>,
                                       << 255, Uint8(c \div 200), 0 >>, 1) } })

\* Variant of SampleTimeInRange: the lower end of the range not checked.
SampleTimeInRange_NoLower(sample_time) == ~(sample_time > 2550)

SampleTimeInRange(sample_time) == ~((sample_time > 2550) \/ (sample_time < 10))

set_sample_time(f, t, reg_addr, sample_time) ==
    IF ~SampleTimeInRange(sample_time)
    THEN [ret |-> -EINVAL, t |-> t]
    ELSE pmw3610_write(f, t, reg_addr, Uint8(sample_time \div 10))

\* the switch of set_downshift_time: [ok, maxtime, mintime]
DownshiftRange(reg_addr) ==
    CASE reg_addr = PMW3610_REG_RUN_DOWNSHIFT ->
            [ok |-> TRUE, maxtime |-> 8160, mintime |-> 32]
      [] reg_addr = PMW3610_REG_REST1_DOWNSHIFT ->
            [ok |-> TRUE,
             maxtime |-> 255 * 16 * CONFIG_PMW3610_REST1_SAMPLE_TIME_MS,
             mintime |-> 16 * CONFIG_PMW3610_REST1_SAMPLE_TIME_MS]
      [] reg_addr = PMW3610_REG_REST2_DOWNSHIFT ->
            [ok |-> TRUE,
             maxtime |-> 255 * 128 * CONFIG_PMW3610_REST2_SAMPLE_TIME_MS,
             mintime |-> 128 * CONFIG_PMW3610_REST2_SAMPLE_TIME_MS]
      [] OTHER -> [ok |-> FALSE, maxtime |-> 0, mintime |-> 0]

\* Variant of DownshiftTimeInRange: the upper end of the range not checked.
DownshiftTimeInRange_NoUpper(r, time) == ~(time < r.mintime)

\* (time > maxtime) || (time < mintime), negated
DownshiftTimeInRange(r, time) == ~((time > r.maxtime) \/ (time < r.mintime))

set_downshift_time(f, t, reg_addr, time) ==
    IF ~DownshiftRange(reg_addr).ok THEN [ret |-> -ENOTSUP, t |-> t]
    ELSE IF ~DownshiftTimeInRange(DownshiftRange(reg_addr), time)
    THEN [ret |-> -EINVAL, t |-> t]
    ELSE pmw3610_write(f, t, reg_addr, Uint8(time \div DownshiftRange(reg_addr).mintime))

----------------------------------------------------------------------------
(* The init steps: async_init_fn[step], each returning [ret, t]. *)

\* Variant of async_init_delay: the delay of a step taken as the one that
\* follows it, so that a step is scheduled with the delay of the step before.
async_init_delay_after(step) ==
    CASE step = ASYNC_INIT_STEP_POWER_UP -> 0
      [] step = ASYNC_INIT_STEP_CLEAR_OB1 -> 10 + CONFIG_PMW3610_INIT_POWER_UP_EXTRA_DELAY_MS
      [] step = ASYNC_INIT_STEP_CHECK_OB1 -> 200
      [] step = ASYNC_INIT_STEP_CONFIGURE -> 50

\* async_init_delay[step], in ms
async_init_delay(step) ==
    CASE step = ASYNC_INIT_STEP_POWER_UP -> 10 + CONFIG_PMW3610_INIT_POWER_UP_EXTRA_DELAY_MS
      [] step = ASYNC_INIT_STEP_CLEAR_OB1 -> 200
      [] step = ASYNC_INIT_STEP_CHECK_OB1 -> 50
      [] step = ASYNC_INIT_STEP_CONFIGURE -> 0

pmw3610_async_init_power_up(f, t) ==
    Only({ IF w.ret < 0 THEN w ELSE [ret |-> 0, t |-> w.t]
         : w \in { pmw3610_write_reg(f, t, PMW3610_REG_POWER_UP_RESET,
                                     PMW3610_POWERUP_CMD_RESET) } })

pmw3610_async_init_clear_ob1(f, t) == pmw3610_write(f, t, PMW3610_REG_OBSERVATION, 0)

\* Variant of SelfTestFailed: fails only a low nibble with no bit set.
SelfTestFailed_NoBitSet(value) == (value % 16) = 0

\* (value & 0x0F) != 0x0F
SelfTestFailed(value) == (value % 16) # 15

\* Variant of CheckProductId: the comparison of the product id inverted.
CheckProductId_Inverted(f, t, product_id) ==
    Only({ IF r.ret # 0 THEN r
           ELSE IF product_id = PMW3610_PRODUCT_ID THEN [ret |-> -EIO, t |-> r.t]
           ELSE [ret |-> 0, t |-> r.t]
         : r \in { pmw3610_read_reg(f, t, PMW3610_REG_PRODUCT_ID, product_id) } })

\* the read and the check of the product id, after the self-test passed
CheckProductId(f, t, product_id) ==
    Only({ IF r.ret # 0 THEN r
           ELSE IF product_id # PMW3610_PRODUCT_ID THEN [ret |-> -EIO, t |-> r.t]
           ELSE [ret |-> 0, t |-> r.t]
         : r \in { pmw3610_read_reg(f, t, PMW3610_REG_PRODUCT_ID, product_id) } })

\* chip = [ob1, product_id]: what the sensor answers to the two reads
pmw3610_async_init_check_ob1(f, t, chip) ==
    Only({ IF r.ret # 0 THEN r
           ELSE IF SelfTestFailed(chip.ob1) THEN [ret |-> -EINVAL, t |-> r.t]
           ELSE CheckProductId(f, r.t, chip.product_id)
         : r \in { pmw3610_read_reg(f, t, PMW3610_REG_OBSERVATION, chip.ob1) } })

\* the loop that reads and discards the motion registers 0x02..0x05
RECURSIVE clear_motion_regs(_, _, _)
clear_motion_regs(f, t, reg) ==
    Only({ IF r.ret # 0 \/ reg = 4 THEN r ELSE clear_motion_regs(f, r.t, reg + 1)
         : r \in { pmw3610_read_reg(f, t, << "0x02", "0x03", "0x04", "0x05" >>[reg], 0) } })

\* the calls of pmw3610_async_init_configure after the motion registers are read
ConfigureCalls(c) ==
    << [fn |-> "set_cpi", reg |-> PMW3610_REG_RES_STEP, val |-> c],
       [fn |-> "set_downshift_time", reg |-> PMW3610_REG_RUN_DOWNSHIFT,
        val |-> CONFIG_PMW3610_RUN_DOWNSHIFT_TIME_MS],
       [fn |-> "set_downshift_time", reg |-> PMW3610_REG_REST1_DOWNSHIFT,
        val |-> CONFIG_PMW3610_REST1_DOWNSHIFT_TIME_MS],
       [fn |-> "set_downshift_time", reg |-> PMW3610_REG_REST2_DOWNSHIFT,
        val |-> CONFIG_PMW3610_REST2_DOWNSHIFT_TIME_MS],
       [fn |-> "set_sample_time", reg |-> PMW3610_REG_REST1_RATE,
        val |-> CONFIG_PMW3610_REST1_SAMPLE_TIME_MS],
       [fn |-> "set_sample_time", reg |-> PMW3610_REG_REST2_RATE,
        val |-> CONFIG_PMW3610_REST2_SAMPLE_TIME_MS],
       [fn |-> "set_sample_time", reg |-> PMW3610_REG_REST3_RATE,
        val |-> CONFIG_PMW3610_REST3_SAMPLE_TIME_MS] >>

ConfigureCall(f, t, call) ==
    CASE call.fn = "set_cpi" -> set_cpi(f, t, call.val)
      [] call.fn = "set_downshift_time" -> set_downshift_time(f, t, call.reg, call.val)
      [] call.fn = "set_sample_time" -> set_sample_time(f, t, call.reg, call.val)

\* the chain of "if (!err) err = ...": r is the result so far, calls[i] the next call
RECURSIVE configure_chain(_, _, _, _)
configure_chain(f, r, calls, i) ==
    IF r.ret # 0 \/ i > Len(calls)
    THEN r
    ELSE Only({ configure_chain(f, s, calls, i + 1)
              : s \in { ConfigureCall(f, r.t, calls[i]) } })

pmw3610_async_init_configure(f, t, c) ==
    Only({ configure_chain(f, r, ConfigureCalls(c), 1)
         : r \in { clear_motion_regs(f, t, 1) } })

async_init_fn(step, f, t, chip, c) ==
    CASE step = ASYNC_INIT_STEP_POWER_UP -> pmw3610_async_init_power_up(f, t)
      [] step = ASYNC_INIT_STEP_CLEAR_OB1 -> pmw3610_async_init_clear_ob1(f, t)
      [] step = ASYNC_INIT_STEP_CHECK_OB1 -> pmw3610_async_init_check_ob1(f, t, chip)
      [] step = ASYNC_INIT_STEP_CONFIGURE -> pmw3610_async_init_configure(f, t, c)

----------------------------------------------------------------------------
(* The motion report: pmw3610_report_data as a function of the device data *)
(* d = [ready, sw_smart_flag, dx, dy, last_smp_time, last_rpt_time], the    *)
(* uptime t_now, the burst packet buf = [x_l, xy_h, y_l, shutter_h,         *)
(* shutter_l] and the bus faults f.  It returns [ret, d, t, events, x, y],  *)
(* x and y being the decoded sample.                                        *)

\* Variant of TOINT16: the 12-bit value taken as it is, without its sign.
TOINT16_Unsigned(val) == val % 4096

\* TOINT16(val, 12): a 12-bit two's complement bit-field read as int16_t
TOINT16(val) == IF val % 4096 >= 2048 THEN (val % 4096) - 4096 ELSE val % 4096

\* buf[X_L] + ((buf[XY_H] & 0xF0) << 4)
RawX(buf) == buf.x_l + ((buf.xy_h \div 16) * 16) * 16
\* buf[Y_L] + ((buf[XY_H] & 0x0F) << 8)
RawY(buf) == buf.y_l + (buf.xy_h % 16) * 256

\* x, y after the decode, CONFIG_PMW3610_SWAP_XY and the two inversions
DecodeXY(buf) ==
    Only({ [x |-> IF CONFIG_PMW3610_INVERT_X THEN -s.x ELSE s.x,
            y |-> IF CONFIG_PMW3610_INVERT_Y THEN -s.y ELSE s.y]
         : s \in { IF CONFIG_PMW3610_SWAP_XY
                   THEN [x |-> TOINT16(RawY(buf)), y |-> TOINT16(RawX(buf))]
                   ELSE [x |-> TOINT16(RawX(buf)), y |-> TOINT16(RawY(buf))] } })

\* ((int16_t)(buf[SHUTTER_H] & 0x01) << 8) + buf[SHUTTER_L]
Shutter(buf) == (buf.shutter_h % 2) * 256 + buf.shutter_l

\* if (data->sw_smart_flag && shutter < 45): [flag, t]
SmartToLow(f, t, flag, shutter) ==
    IF flag /\ shutter < 45
    THEN [flag |-> FALSE, t |-> pmw3610_write(f, t, "0x32", 0).t]
    ELSE [flag |-> flag, t |-> t]

\* if (!data->sw_smart_flag && shutter > 45): [flag, t]
SmartToHigh(f, t, flag, shutter) ==
    IF ~flag /\ shutter > 45
    THEN [flag |-> TRUE, t |-> pmw3610_write(f, t, "0x32", 128).t]
    ELSE [flag |-> flag, t |-> t]

\* #ifdef CONFIG_PMW3610_SMART_ALGORITHM: the two ifs, one after the other
SmartAlgorithm(f, t, flag, shutter) ==
    IF ~CONFIG_PMW3610_SMART_ALGORITHM THEN [flag |-> flag, t |-> t]
    ELSE Only({ SmartToHigh(f, a.t, a.flag, shutter)
              : a \in { SmartToLow(f, t, flag, shutter) } })

\* #if CONFIG_PMW3610_REPORT_INTERVAL_MIN > 0
IntervalConfigured == CONFIG_PMW3610_REPORT_INTERVAL_MIN > 0

\* Variant of PurgeStale: the purge only when more than the interval has passed.
PurgeStale_Strict(t_now, smp) ==
    IntervalConfigured /\ t_now - smp > CONFIG_PMW3610_REPORT_INTERVAL_MIN

\* now - last_smp_time >= CONFIG_PMW3610_REPORT_INTERVAL_MIN
PurgeStale(t_now, smp) ==
    IntervalConfigured /\ t_now - smp >= CONFIG_PMW3610_REPORT_INTERVAL_MIN

\* Variant of ReportGated: a report exactly one interval after the last one is
\* still held back.
ReportGated_Inclusive(t_now, rpt) ==
    IntervalConfigured /\ t_now - rpt <= CONFIG_PMW3610_REPORT_INTERVAL_MIN

\* now - last_rpt_time < CONFIG_PMW3610_REPORT_INTERVAL_MIN
ReportGated(t_now, rpt) ==
    IntervalConfigured /\ t_now - rpt < CONFIG_PMW3610_REPORT_INTERVAL_MIN

\* Variant of CLAMP: the cast to int16_t alone, the value wrapping around.
CLAMP_Cast(v, lo, hi) == ((v + 32768) % 65536) - 32768

\* CLAMP(val, low, high) of Zephyr's sys/util.h
CLAMP(v, lo, hi) == IF v < lo THEN lo ELSE IF v > hi THEN hi ELSE v

\* Variant of InputEvents: the X event reported whether or not rx is zero.
InputEvents_XAlways(rx, ry) ==
    << [code |-> "x", value |-> rx, sync |-> ~(ry # 0)] >>
    \o (IF ry # 0 THEN << [code |-> "y", value |-> ry, sync |-> TRUE] >> ELSE << >>)

\* Variant of InputEvents: the X event always reported with sync set.
InputEvents_XSync(rx, ry) ==
    (IF rx # 0 THEN << [code |-> "x", value |-> rx, sync |-> TRUE] >> ELSE << >>)
    \o (IF ry # 0 THEN << [code |-> "y", value |-> ry, sync |-> TRUE] >> ELSE << >>)

\* the input_report calls of one emission
InputEvents(rx, ry) ==
    (IF rx # 0 THEN << [code |-> "x", value |-> rx, sync |-> ~(ry # 0)] >> ELSE << >>)
    \o (IF ry # 0 THEN << [code |-> "y", value |-> ry, sync |-> TRUE] >> ELSE << >>)

\* the purge and the accumulation: the device data with the sample added
Accumulate(d, t_now, x, y) ==
    [d EXCEPT !.dx = (IF PurgeStale(t_now, d.last_smp_time) THEN 0 ELSE @) + x,
              !.dy = (IF PurgeStale(t_now, d.last_smp_time) THEN 0 ELSE @) + y,
              !.last_smp_time = IF IntervalConfigured THEN t_now ELSE @]

\* the report of the accumulated d: [d, events]
Report(d, t_now) ==
    IF ReportGated(t_now, d.last_rpt_time)
    THEN [d |-> d, events |-> << >>]
    ELSE IF CLAMP(d.dx, INT16_MIN, INT16_MAX) # 0 \/ CLAMP(d.dy, INT16_MIN, INT16_MAX) # 0
    THEN [d |-> [d EXCEPT !.dx = 0, !.dy = 0,
                          !.last_rpt_time = IF IntervalConfigured THEN t_now ELSE @],
          events |-> InputEvents(CLAMP(d.dx, INT16_MIN, INT16_MAX),
                                 CLAMP(d.dy, INT16_MIN, INT16_MAX))]
    ELSE [d |-> d, events |-> << >>]

\* pmw3610_report_data once the burst read has succeeded
ProcessSample(d, t_now, f, t, xy, shutter) ==
    Only({ [ret |-> 0, d |-> [rep.d EXCEPT !.sw_smart_flag = sm.flag], t |-> sm.t,
            events |-> rep.events, x |-> xy.x, y |-> xy.y]
         : sm \in { SmartAlgorithm(f, t, d.sw_smart_flag, shutter) },
           rep \in { Report(Accumulate(d, t_now, xy.x, xy.y), t_now) } })

\* Variant of pmw3610_report_data: the test of data->ready left out.
pmw3610_report_data_unguarded(d, t_now, buf, f) ==
    Only({ IF r.ret # 0
           THEN [ret |-> r.ret, d |-> d, t |-> r.t, events |-> << >>, x |-> 0, y |-> 0]
           ELSE ProcessSample(d, t_now, f, r.t, DecodeXY(buf), Shutter(buf))
         : r \in { pmw3610_read(f, << >>, PMW3610_REG_MOTION_BURST, 0) } })

\* Variant of pmw3610_report_data: the accumulators dropped when the burst
\* read fails.
pmw3610_report_data_dropping(d, t_now, buf, f) ==
    IF ~d.ready
    THEN [ret |-> -EBUSY, d |-> d, t |-> << >>, events |-> << >>, x |-> 0, y |-> 0]
    ELSE Only({ IF r.ret # 0
                THEN [ret |-> r.ret, d |-> [d EXCEPT !.dx = 0, !.dy = 0], t |-> r.t,
                      events |-> << >>, x |-> 0, y |-> 0]
                ELSE ProcessSample(d, t_now, f, r.t, DecodeXY(buf), Shutter(buf))
              : r \in { pmw3610_read(f, << >>, PMW3610_REG_MOTION_BURST, 0) } })

\* pmw3610_report_data: [ret, d, t, events, x, y]
pmw3610_report_data(d, t_now, buf, f) ==
    IF ~d.ready
    THEN [ret |-> -EBUSY, d |-> d, t |-> << >>, events |-> << >>, x |-> 0, y |-> 0]
    ELSE Only({ IF r.ret # 0
                THEN [ret |-> r.ret, d |-> d, t |-> r.t, events |-> << >>,
                      x |-> 0, y |-> 0]
                ELSE ProcessSample(d, t_now, f, r.t, DecodeXY(buf), Shutter(buf))
              : r \in { pmw3610_read(f, << >>, PMW3610_REG_MOTION_BURST, 0) } })

----------------------------------------------------------------------------
(* The attribute interface: pmw3610_attr_set, returning [ret, t].  val is   *)
(* what PMW3610_SVALUE_TO_CPI and PMW3610_SVALUE_TO_TIME make of the sensor *)
(* value, the uint32 of its val1; the model draws it from the non-negative  *)
(* values.                                                                  *)

\* the switch on the attribute
AttrDispatch(attr, val, f) ==
    CASE attr = "PMW3610_ATTR_CPI" -> set_cpi(f, << >>, val)
      [] attr = "PMW3610_ATTR_RUN_DOWNSHIFT_TIME" ->
             set_downshift_time(f, << >>, PMW3610_REG_RUN_DOWNSHIFT, val)
      [] attr = "PMW3610_ATTR_REST1_DOWNSHIFT_TIME" ->
             set_downshift_time(f, << >>, PMW3610_REG_REST1_DOWNSHIFT, val)
      [] attr = "PMW3610_ATTR_REST2_DOWNSHIFT_TIME" ->
             set_downshift_time(f, << >>, PMW3610_REG_REST2_DOWNSHIFT, val)
      [] attr = "PMW3610_ATTR_REST1_SAMPLE_TIME" ->
             set_sample_time(f, << >>, PMW3610_REG_REST1_RATE, val)
      [] attr = "PMW3610_ATTR_REST2_SAMPLE_TIME" ->
             set_sample_time(f, << >>, PMW3610_REG_REST2_RATE, val)
      [] attr = "PMW3610_ATTR_REST3_SAMPLE_TIME" ->
             set_sample_time(f, << >>, PMW3610_REG_REST3_RATE, val)
      [] OTHER -> [ret |-> -ENOTSUP, t |-> << >>]

\* Variant of pmw3610_attr_set: the test of data->ready left out.
pmw3610_attr_set_unguarded(is_ready, chan, attr, val, f) ==
    IF chan # "SENSOR_CHAN_ALL" THEN [ret |-> -ENOTSUP, t |-> << >>]
    ELSE AttrDispatch(attr, val, f)

pmw3610_attr_set(is_ready, chan, attr, val, f) ==
    IF chan # "SENSOR_CHAN_ALL" THEN [ret |-> -ENOTSUP, t |-> << >>]
    ELSE IF ~is_ready THEN [ret |-> -EBUSY, t |-> << >>]
    ELSE AttrDispatch(attr, val, f)

----------------------------------------------------------------------------
(* Inputs. *)

\* the sets of at most two failing transactions among the first n
Faults(n) == {{i, j} \ {0} : i, j \in 0..n}
\* no failure, or one failing transaction among the first n
OneFault(n) == {{i} \ {0} : i \in 0..n}

\* 12-bit raw motion values and shutter values the sensor reports
RawXs == {0, 3, 4, 4093}
RawYs == {0, 1}
Shutters == {44, 45, 46}

\* the burst packet that carries raw x, raw y and a shutter value
Packet(rawx, rawy, sh) ==
    [x_l |-> rawx % 256, xy_h |-> (rawx \div 256) * 16 + (rawy \div 256),
     y_l |-> rawy % 256, shutter_h |-> sh \div 256, shutter_l |-> sh % 256]

\* every motion at the shutter value that leaves the smart flag alone, and one
\* motion at every shutter value
Packets ==
    {Packet(rx, ry, 45) : rx \in RawXs, ry \in RawYs}
    \cup {Packet(3, 1, sh) : sh \in Shutters}

\* the channels and attributes a caller may name; the last of each is one the
\* driver does not serve
Channels == {"SENSOR_CHAN_ALL", "SENSOR_CHAN_ACCEL_X"}
Attributes ==
    {"PMW3610_ATTR_CPI", "PMW3610_ATTR_RUN_DOWNSHIFT_TIME",
     "PMW3610_ATTR_REST1_DOWNSHIFT_TIME", "PMW3610_ATTR_REST2_DOWNSHIFT_TIME",
     "PMW3610_ATTR_REST1_SAMPLE_TIME", "PMW3610_ATTR_REST2_SAMPLE_TIME",
     "PMW3610_ATTR_REST3_SAMPLE_TIME", "SENSOR_ATTR_SAMPLING_FREQUENCY"}

\* values around the ends of every accepted range
CpiValues == {0, 199, 200, 800, 3200, 3201, 3400}
SampleTimes == {0, 9, 10, 500, 2550, 2551}
DownshiftTimes ==
    {0, 31, 32, 8160, 8161, 639, 640, 163200, 163201, 12799, 12800, 3264000, 3264001}

\* the values a caller tries for an attribute: around the ends of its range
AttrValues(attr) ==
    CASE attr = "PMW3610_ATTR_CPI" -> CpiValues
      [] attr = "PMW3610_ATTR_RUN_DOWNSHIFT_TIME" -> {0, 31, 32, 8160, 8161}
      [] attr = "PMW3610_ATTR_REST1_DOWNSHIFT_TIME" -> {0, 639, 640, 163200, 163201}
      [] attr = "PMW3610_ATTR_REST2_DOWNSHIFT_TIME" -> {0, 12799, 12800, 3264000, 3264001}
      [] OTHER -> SampleTimes

NoCall == [op |-> "none", ret |-> 0, arg |-> << >>]

----------------------------------------------------------------------------
(* The state after pmw3610_init: the data zeroed, the interrupt callback    *)
(* added with the line not yet configured, the first init step scheduled.   *)

Init ==
    /\ ready = FALSE
    /\ async_init_step = ASYNC_INIT_STEP_POWER_UP
    /\ err = 0
    /\ sw_smart_flag = FALSE
    /\ dx = 0 /\ dy = 0
    /\ last_smp_time = 0 /\ last_rpt_time = 0
    /\ cpi \in {800, 3400}
    /\ irq_enabled = FALSE
    /\ init_work = [pending |-> TRUE, due |-> async_init_delay(ASYNC_INIT_STEP_POWER_UP)]
    /\ trigger_work = FALSE
    /\ now = 0
    /\ burst = 0
    /\ init_log = << >>
    /\ init_times = << >>
    /\ aux_written = -1
    /\ automouse = [triggered |-> FALSE, layer |-> FALSE, timer |-> 0, pc |-> "idle",
                    checks |-> 0]
    /\ spi = [log |-> << >>, caller |-> << >>, work |-> << >>]
    /\ busTrace = << >>
    /\ events = << >>
    /\ lastCall = NoCall

----------------------------------------------------------------------------
(* The handlers. *)

\* what register 0x32 holds after the transactions of t, given what it held
AuxWritten(t, held) ==
    IF \E i \in DOMAIN t : t[i].kind = "write" /\ t[i].addr = "0x32" /\ t[i].err = 0
    THEN t[CHOOSE i \in DOMAIN t :
               /\ t[i].kind = "write" /\ t[i].addr = "0x32" /\ t[i].err = 0
               /\ \A j \in DOMAIN t :
                      (t[j].kind = "write" /\ t[j].addr = "0x32" /\ t[j].err = 0) => j <= i].val
    ELSE held

\* Variant of InitDone: the bring-up taken as complete once the self-test passed.
InitDone_Early(step) == step >= ASYNC_INIT_STEP_CONFIGURE

\* data->async_init_step == ASYNC_INIT_STEP_COUNT
InitDone(step) == step = ASYNC_INIT_STEP_COUNT

\* the delayed work init_work runs; chip is what the sensor answers to the reads
pmw3610_async_init(f, chip) ==
    /\ init_work.pending
    /\ now >= init_work.due
    /\ \E r \in { async_init_fn(async_init_step, f, << >>, chip, cpi) } :
       LET step == async_init_step + 1
       IN  /\ err' = r.ret
           /\ busTrace' = r.t
           /\ init_log' = Append(init_log, async_init_step)
           /\ init_times' = Append(init_times, now)
           /\ lastCall' = [op |-> "async_init", ret |-> r.ret,
                           arg |-> << async_init_step >>]
           /\ IF r.ret # 0
              THEN /\ init_work' = [init_work EXCEPT !.pending = FALSE]
                   /\ UNCHANGED << async_init_step, ready, irq_enabled >>
              ELSE /\ async_init_step' = step
                   /\ IF InitDone(step)
                      THEN /\ ready' = TRUE
                           /\ irq_enabled' = TRUE
                           /\ init_work' = [init_work EXCEPT !.pending = FALSE]
                      ELSE /\ init_work' = [pending |-> TRUE,
                                            due |-> now + async_init_delay(step)]
                           /\ UNCHANGED << ready, irq_enabled >>
    /\ events' = << >>
    /\ UNCHANGED << sw_smart_flag, dx, dy, last_smp_time, last_rpt_time, cpi,
                    trigger_work, now, burst, aux_written, automouse, spi >>

\* Variant of pmw3610_gpio_callback: the work submitted with the line left
\* enabled.
pmw3610_gpio_callback_unmasked ==
    /\ irq_enabled
    /\ burst < MaxBurst
    /\ trigger_work' = TRUE
    /\ busTrace' = << >>
    /\ events' = << >>
    /\ lastCall' = [op |-> "gpio_callback", ret |-> 0, arg |-> << >>]
    /\ UNCHANGED << ready, async_init_step, err, sw_smart_flag, dx, dy, last_smp_time,
                    last_rpt_time, cpi, irq_enabled, init_work, now, burst, init_log,
                    init_times, aux_written, automouse, spi >>

\* the interrupt line is active and the motion pin asserts
pmw3610_gpio_callback ==
    /\ irq_enabled
    /\ burst < MaxBurst
    /\ irq_enabled' = FALSE
    /\ trigger_work' = TRUE
    /\ busTrace' = << >>
    /\ events' = << >>
    /\ lastCall' = [op |-> "gpio_callback", ret |-> 0, arg |-> << >>]
    /\ UNCHANGED << ready, async_init_step, err, sw_smart_flag, dx, dy, last_smp_time,
                    last_rpt_time, cpi, init_work, now, burst, init_log,
                    init_times, aux_written, automouse, spi >>

DeviceData ==
    [ready |-> ready, sw_smart_flag |-> sw_smart_flag, dx |-> dx, dy |-> dy,
     last_smp_time |-> last_smp_time, last_rpt_time |-> last_rpt_time]

\* Variant of pmw3610_work_callback: the interrupt enabled again only after a
\* report cycle that returned 0.
pmw3610_work_callback_quitting(buf, f) ==
    /\ trigger_work
    /\ \E r \in { pmw3610_report_data(DeviceData, now, buf, f) } :
           /\ sw_smart_flag' = r.d.sw_smart_flag
           /\ dx' = r.d.dx
           /\ dy' = r.d.dy
           /\ last_smp_time' = r.d.last_smp_time
           /\ last_rpt_time' = r.d.last_rpt_time
           /\ busTrace' = r.t
           /\ events' = r.events
           /\ aux_written' = AuxWritten(r.t, aux_written)
           /\ lastCall' = [op |-> "report", ret |-> r.ret,
                           arg |-> [x |-> r.x, y |-> r.y, dx |-> dx, dy |-> dy,
                                    last_smp_time |-> last_smp_time,
                                    last_rpt_time |-> last_rpt_time,
                                    sw_smart_flag |-> sw_smart_flag, buf |-> buf]]
           /\ irq_enabled' = (r.ret = 0)
    /\ trigger_work' = FALSE
    /\ burst' = burst + 1
    /\ UNCHANGED << ready, async_init_step, err, cpi, init_work, now, init_log,
                    init_times, automouse, spi >>

\* the work item trigger_work runs
pmw3610_work_callback(buf, f) ==
    /\ trigger_work
    /\ \E r \in { pmw3610_report_data(DeviceData, now, buf, f) } :
           /\ sw_smart_flag' = r.d.sw_smart_flag
           /\ dx' = r.d.dx
           /\ dy' = r.d.dy
           /\ last_smp_time' = r.d.last_smp_time
           /\ last_rpt_time' = r.d.last_rpt_time
           /\ busTrace' = r.t
           /\ events' = r.events
           /\ aux_written' = AuxWritten(r.t, aux_written)
           /\ lastCall' = [op |-> "report", ret |-> r.ret,
                           arg |-> [x |-> r.x, y |-> r.y, dx |-> dx, dy |-> dy,
                                    last_smp_time |-> last_smp_time,
                                    last_rpt_time |-> last_rpt_time,
                                    sw_smart_flag |-> sw_smart_flag, buf |-> buf]]
    /\ irq_enabled' = TRUE
    /\ trigger_work' = FALSE
    /\ burst' = burst + 1
    /\ UNCHANGED << ready, async_init_step, err, cpi, init_work, now, init_log,
                    init_times, automouse, spi >>

\* a caller sets an attribute
AttrSet(chan, attr, val, f) ==
    /\ \E r \in { pmw3610_attr_set(ready, chan, attr, val, f) } :
           /\ busTrace' = r.t
           /\ lastCall' = [op |-> "attr_set", ret |-> r.ret,
                           arg |-> [chan |-> chan, attr |-> attr, val |-> val]]
    /\ events' = << >>
    /\ UNCHANGED << ready, async_init_step, err, sw_smart_flag, dx, dy, last_smp_time,
                    last_rpt_time, cpi, irq_enabled, init_work, trigger_work, now,
                    burst, init_log, init_times, aux_written, automouse, spi >>

\* Time passes, to the timeout of the delayed work or by one millisecond.  The
\* work queue is not held up: a submitted or due work item runs before the
\* uptime changes.  After a failed bring-up no handler reads the uptime, and
\* the clock is left where it is.
Tick ==
    /\ ~trigger_work
    /\ IF init_work.pending
       THEN now < init_work.due /\ now' = init_work.due
       ELSE ready /\ now < MaxTime /\ now' = now + 1
    /\ burst' = 0
    /\ busTrace' = << >>
    /\ events' = << >>
    /\ lastCall' = [op |-> "tick", ret |-> 0, arg |-> << >>]
    /\ UNCHANGED << ready, async_init_step, err, sw_smart_flag, dx, dy, last_smp_time,
                    last_rpt_time, cpi, irq_enabled, init_work, trigger_work, init_log,
                    init_times, aux_written, automouse, spi >>

\* what the sensor may answer to the reads of the self-test
Chips == [ob1 : {15, 14, 31}, product_id : {PMW3610_PRODUCT_ID, 0}]

Next ==
    \/ \E f \in Faults(27), chip \in Chips : pmw3610_async_init(f, chip)
    \/ pmw3610_gpio_callback
    \/ \E buf \in Packets, f \in OneFault(4) : pmw3610_work_callback(buf, f)
    \/ AttrSet("SENSOR_CHAN_ALL", "PMW3610_ATTR_CPI", 800, {})
    \/ Tick

Spec == Init /\ [][Next]_vars

\* The bring-up under a fair scheduler, on a sensor that reports one motion
\* packet: a due work item runs, and time passes.
LiveNext ==
    \/ \E f \in Faults(27), chip \in Chips : pmw3610_async_init(f, chip)
    \/ pmw3610_gpio_callback
    \/ pmw3610_work_callback(Packet(3, 0, 45), {})
    \/ AttrSet("SENSOR_CHAN_ALL", "PMW3610_ATTR_CPI", 800, {})
    \/ Tick

LiveSpec ==
    /\ Init /\ [][LiveNext]_vars
    /\ WF_vars(\E f \in Faults(27), chip \in Chips : pmw3610_async_init(f, chip))
    /\ WF_vars(Tick)

\* The report cycles under a fair work queue: a submitted work item runs.  The
\* sensor reports no motion, motion on x or motion on both axes, and the
\* burst read may fail.
CyclePackets == {Packet(0, 0, 45), Packet(3, 0, 45), Packet(4093, 1, 46)}

CycleNext ==
    \/ \E chip \in Chips : pmw3610_async_init({}, chip)
    \/ pmw3610_gpio_callback
    \/ \E buf \in CyclePackets, f \in OneFault(1) : pmw3610_work_callback(buf, f)
    \/ Tick

CycleSpec ==
    /\ Init /\ [][CycleNext]_vars
    /\ WF_vars(\E buf \in CyclePackets, f \in OneFault(1) : pmw3610_work_callback(buf, f))

----------------------------------------------------------------------------
(* The same driver with a caller that sets every attribute to every value,  *)
(* on a sensor that reports one motion packet.                              *)

AttrNext ==
    \/ \E f \in OneFault(27), chip \in Chips : pmw3610_async_init(f, chip)
    \/ pmw3610_gpio_callback
    \/ pmw3610_work_callback(Packet(3, 0, 45), {})
    \/ \E chan \in Channels, attr \in Attributes, f \in OneFault(5) :
           \E val \in AttrValues(attr) : AttrSet(chan, attr, val, f)
    \/ Tick

AttrSpec == Init /\ [][AttrNext]_vars

----------------------------------------------------------------------------
(* The configuration functions called on their own, with every register     *)
(* selector and value.                                                      *)

CallSetCpi(c, f) ==
    /\ \E r \in { set_cpi(f, << >>, c) } :
           /\ busTrace' = r.t
           /\ lastCall' = [op |-> "set_cpi", ret |-> r.ret,
                           arg |-> [reg |-> PMW3610_REG_RES_STEP, val |-> c]]
    /\ UNCHANGED << ready, async_init_step, err, sw_smart_flag, dx, dy, last_smp_time,
                    last_rpt_time, cpi, irq_enabled, init_work, trigger_work, now,
                    burst, init_log, init_times, aux_written, automouse, spi, events >>

CallSetSampleTime(reg_addr, sample_time, f) ==
    /\ \E r \in { set_sample_time(f, << >>, reg_addr, sample_time) } :
           /\ busTrace' = r.t
           /\ lastCall' = [op |-> "set_sample_time", ret |-> r.ret,
                           arg |-> [reg |-> reg_addr, val |-> sample_time]]
    /\ UNCHANGED << ready, async_init_step, err, sw_smart_flag, dx, dy, last_smp_time,
                    last_rpt_time, cpi, irq_enabled, init_work, trigger_work, now,
                    burst, init_log, init_times, aux_written, automouse, spi, events >>

CallSetDownshiftTime(reg_addr, time, f) ==
    /\ \E r \in { set_downshift_time(f, << >>, reg_addr, time) } :
           /\ busTrace' = r.t
           /\ lastCall' = [op |-> "set_downshift_time", ret |-> r.ret,
                           arg |-> [reg |-> reg_addr, val |-> time]]
    /\ UNCHANGED << ready, async_init_step, err, sw_smart_flag, dx, dy, last_smp_time,
                    last_rpt_time, cpi, irq_enabled, init_work, trigger_work, now,
                    burst, init_log, init_times, aux_written, automouse, spi, events >>

SampleRegs == {PMW3610_REG_REST1_RATE, PMW3610_REG_REST2_RATE, PMW3610_REG_REST3_RATE}
DownshiftRegs ==
    {PMW3610_REG_RUN_DOWNSHIFT, PMW3610_REG_REST1_DOWNSHIFT, PMW3610_REG_REST2_DOWNSHIFT,
     PMW3610_REG_PERFORMANCE, PMW3610_REG_REST1_RATE}

CfgNext ==
    \/ \E c \in CpiValues, f \in Faults(5) : CallSetCpi(c, f)
    \/ \E reg \in SampleRegs, ms \in SampleTimes, f \in Faults(3) :
           CallSetSampleTime(reg, ms, f)
    \/ \E reg \in DownshiftRegs, ms \in DownshiftTimes, f \in Faults(3) :
           CallSetDownshiftTime(reg, ms, f)

CfgSpec == Init /\ [][CfgNext]_vars

----------------------------------------------------------------------------
(* The steps of the driver that are functions of their inputs, each applied *)
(* once to inputs drawn from bounded sets: the decode of a burst packet,   *)
(* one report cycle of a ready driver whose accumulators and times are     *)
(* given, and set_downshift_time.                                          *)

\* the burst packets with every low byte and every pair of high nibbles
DecodeBufs ==
    {[x_l |-> l, xy_h |-> nx * 16 + ny, y_l |-> 255 - l, shutter_h |-> 0, shutter_l |-> 45]
     : l \in 0..255, nx \in 0..15, ny \in 0..15}

\* the decode of lines 415-428 on its own
CallDecode(buf) ==
    /\ \E xy \in { DecodeXY(buf) } :
           lastCall' = [op |-> "decode", ret |-> 0,
                        arg |-> [buf |-> buf, x |-> xy.x, y |-> xy.y]]
    /\ UNCHANGED << ready, async_init_step, err, sw_smart_flag, dx, dy, last_smp_time,
                    last_rpt_time, cpi, irq_enabled, init_work, trigger_work, now,
                    burst, init_log, init_times, aux_written, automouse, spi, busTrace, events >>

\* what the int64_t accumulators may hold when a cycle starts: samples of up
\* to 2047 counts add up for as long as the report is held back
AccValues == {0, 5, 32766, 32767, 32768, 40000, -5, -32768, -32769, -40000}

\* the uptime of the cycle, and the static data of a ready driver before it:
\* the last sample not older than the last report
CycleTimes == {1000}
CycleData(t_now) ==
    {[ready |-> TRUE, sw_smart_flag |-> fl, dx |-> ax, dy |-> ay,
      last_smp_time |-> smp, last_rpt_time |-> rpt]
     : fl \in BOOLEAN, ax \in AccValues, ay \in {0, 40000, -32769},
       smp \in {t_now - 2, t_now - 1}, rpt \in {t_now - 3, t_now - 2, t_now - 1}}

\* pmw3610_report_data called at uptime t_now on the data d
CallReportData(d, t_now, buf, f) ==
    /\ d.last_rpt_time <= d.last_smp_time
    /\ \E r \in { pmw3610_report_data(d, t_now, buf, f) } :
           /\ sw_smart_flag' = r.d.sw_smart_flag
           /\ dx' = r.d.dx
           /\ dy' = r.d.dy
           /\ last_smp_time' = r.d.last_smp_time
           /\ last_rpt_time' = r.d.last_rpt_time
           /\ busTrace' = r.t
           /\ events' = r.events
           /\ aux_written' = AuxWritten(r.t, aux_written)
           /\ lastCall' = [op |-> "report", ret |-> r.ret,
                           arg |-> [x |-> r.x, y |-> r.y, dx |-> d.dx, dy |-> d.dy,
                                    last_smp_time |-> d.last_smp_time,
                                    last_rpt_time |-> d.last_rpt_time,
                                    sw_smart_flag |-> d.sw_smart_flag, buf |-> buf]]
    /\ ready' = d.ready
    /\ now' = t_now
    /\ UNCHANGED << async_init_step, err, cpi, irq_enabled, init_work, trigger_work,
                    burst, init_log, init_times, automouse, spi >>

\* the downshift times a caller tries: the ends of the three ranges, and
\* around every multiple of the run-mode unit up to one past the last
RunDownshiftTimes == {v * 32 + o : v \in 0..256, o \in {0, 31}}

\* one call, in the state pmw3610_init leaves
FnNext ==
    \/ /\ lastCall = NoCall
       /\ \E buf \in DecodeBufs : CallDecode(buf)
    \/ /\ lastCall = NoCall
       /\ \E t_now \in CycleTimes, buf \in Packets, f \in OneFault(1) :
              \E d \in CycleData(t_now) : CallReportData(d, t_now, buf, f)
    \/ /\ lastCall = NoCall
       /\ \E reg \in DownshiftRegs, ms \in DownshiftTimes \cup RunDownshiftTimes,
             f \in OneFault(3) : CallSetDownshiftTime(reg, ms, f)

FnSpec == Init /\ [][FnNext]_vars

----------------------------------------------------------------------------
(* The automouse layer of a build with AUTOMOUSE_LAYER > 0.  The report     *)
(* path runs in the work queue thread and the expiry function of            *)
(* automouse_layer_timer in the interrupt of the system clock, so the       *)
(* expiry function may run between any two statements of                    *)
(* activate_automouse_layer, and runs as a whole.  automouse.timer is the   *)
(* time left on the timer in ms, 0 when it is stopped; automouse.pc is the  *)
(* statement of activate_automouse_layer the report path is to run next.    *)

\* zmk_keymap_highest_layer_active() == AUTOMOUSE_LAYER: the layer is active
\* and no layer above it is
HighestIsAutomouse(a, higher) == a.layer /\ ~higher

\* the condition of lines 398-400; mode_move is input_mode == MOVE and over is
\* abs(x) + abs(y) > CONFIG_PMW3610_MOVEMENT_THRESHOLD
AutomouseCondition(a, mode_move, over, higher) ==
    mode_move /\ (a.triggered \/ ~HighestIsAutomouse(a, higher)) /\ over

\* a report cycle of a ready driver comes to the test of lines 398-400
AutomouseCheck(mode_move, over, higher) ==
    /\ ready
    /\ automouse.pc = "idle"
    /\ automouse.checks < MaxChecks
    /\ automouse' = [automouse EXCEPT
           !.checks = @ + 1,
           !.pc = IF AutomouseCondition(automouse, mode_move, over, higher)
                  THEN "set_triggered" ELSE "idle"]
    /\ UNCHANGED << ready, async_init_step, err, sw_smart_flag, dx, dy, last_smp_time,
                    last_rpt_time, cpi, irq_enabled, init_work, trigger_work, now,
                    burst, init_log, init_times, aux_written, spi, busTrace, events,
                    lastCall >>

\* automouse_triggered = true;
ActivateSetTriggered ==
    /\ automouse.pc = "set_triggered"
    /\ automouse' = [automouse EXCEPT !.triggered = TRUE, !.pc = "layer_activate"]
    /\ UNCHANGED << ready, async_init_step, err, sw_smart_flag, dx, dy, last_smp_time,
                    last_rpt_time, cpi, irq_enabled, init_work, trigger_work, now,
                    burst, init_log, init_times, aux_written, spi, busTrace, events,
                    lastCall >>

\* zmk_keymap_layer_activate(AUTOMOUSE_LAYER);
ActivateLayer ==
    /\ automouse.pc = "layer_activate"
    /\ automouse' = [automouse EXCEPT !.layer = TRUE, !.pc = "timer_start"]
    /\ UNCHANGED << ready, async_init_step, err, sw_smart_flag, dx, dy, last_smp_time,
                    last_rpt_time, cpi, irq_enabled, init_work, trigger_work, now,
                    burst, init_log, init_times, aux_written, spi, busTrace, events,
                    lastCall >>

\* k_timer_start(&automouse_layer_timer, K_MSEC(...), K_NO_WAIT): a running
\* timer starts over
ActivateStartTimer ==
    /\ automouse.pc = "timer_start"
    /\ automouse' = [automouse EXCEPT !.timer = CONFIG_PMW3610_AUTOMOUSE_TIMEOUT_MS,
                                      !.pc = "idle"]
    /\ UNCHANGED << ready, async_init_step, err, sw_smart_flag, dx, dy, last_smp_time,
                    last_rpt_time, cpi, irq_enabled, init_work, trigger_work, now,
                    burst, init_log, init_times, aux_written, spi, busTrace, events,
                    lastCall >>

\* a millisecond passes on the running timer, not its last
AutomouseTimerTick ==
    /\ automouse.timer > 1
    /\ automouse' = [automouse EXCEPT !.timer = @ - 1]
    /\ UNCHANGED << ready, async_init_step, err, sw_smart_flag, dx, dy, last_smp_time,
                    last_rpt_time, cpi, irq_enabled, init_work, trigger_work, now,
                    burst, init_log, init_times, aux_written, spi, busTrace, events,
                    lastCall >>

\* the timer expires: its expiry function runs, and the timer, started with
\* the period K_NO_WAIT, stops
deactivate_automouse_layer ==
    /\ automouse.timer = 1
    /\ automouse' = [automouse EXCEPT !.timer = 0, !.triggered = FALSE, !.layer = FALSE]
    /\ UNCHANGED << ready, async_init_step, err, sw_smart_flag, dx, dy, last_smp_time,
                    last_rpt_time, cpi, irq_enabled, init_work, trigger_work, now,
                    burst, init_log, init_times, aux_written, spi, busTrace, events,
                    lastCall >>

\* the sensor that passes the self-test
GoodChip == [ob1 |-> 15, product_id |-> PMW3610_PRODUCT_ID]

\* the statements of activate_automouse_layer
ActivateSteps == ActivateSetTriggered \/ ActivateLayer \/ ActivateStartTimer

AutoNext ==
    \/ pmw3610_async_init({}, GoodChip)
    \/ Tick
    \/ \E mode_move, over, higher \in BOOLEAN : AutomouseCheck(mode_move, over, higher)
    \/ ActivateSetTriggered
    \/ ActivateLayer
    \/ ActivateStartTimer
    \/ AutomouseTimerTick
    \/ deactivate_automouse_layer

\* the work queue thread goes on, and time passes
AutoSpec ==
    /\ Init /\ [][AutoNext]_vars
    /\ WF_vars(pmw3610_async_init({}, GoodChip))
    /\ WF_vars(Tick)
    /\ WF_vars(ActivateSteps)
    /\ WF_vars(AutomouseTimerTick)
    /\ WF_vars(deactivate_automouse_layer)

----------------------------------------------------------------------------
(* The bus shared by two threads.  pmw3610_attr_set runs in the thread of   *)
(* its caller and the report cycle in the work queue thread; the driver     *)
(* takes no lock, pmw3610_write and set_cpi sleep after the write of ENABLE *)
(* and every SPI transfer waits for its end, so the transactions of the two *)
(* threads may come in any order, each thread keeping its own.  spi.log is  *)
(* the transactions made on the bus since both threads were last at rest,   *)
(* each with the thread that made it; spi.caller and spi.work are those the *)
(* running call of each thread has still to make.                           *)

\* the transactions of t, each marked with the thread who
TaggedOps(t, who) == [i \in DOMAIN t |-> [who |-> who, op |-> t[i]]]

\* the thread has made a transaction since both were last at rest
HasRun(who) == \E i \in DOMAIN spi.log : spi.log[i].who = who

\* the log a call starts with: a new one when both threads are at rest
LogAtBegin == IF spi.caller = << >> /\ spi.work = << >> THEN << >> ELSE spi.log

\* a caller calls pmw3610_attr_set on a ready driver, with a value it takes
CallerBegins(attr, val) ==
    /\ ready
    /\ spi.caller = << >>
    /\ spi.work = << >> \/ ~HasRun("caller")
    /\ \E r \in { pmw3610_attr_set(ready, "SENSOR_CHAN_ALL", attr, val, {}) } :
           /\ r.t # << >>
           /\ spi' = [spi EXCEPT !.log = LogAtBegin, !.caller = TaggedOps(r.t, "caller")]
    /\ UNCHANGED << ready, async_init_step, err, sw_smart_flag, dx, dy, last_smp_time,
                    last_rpt_time, cpi, irq_enabled, init_work, trigger_work, now,
                    burst, init_log, init_times, aux_written, automouse, busTrace,
                    events, lastCall >>

\* the work queue thread starts a report cycle, the smart flag being fl
WorkBegins(buf, fl) ==
    /\ ready
    /\ spi.work = << >>
    /\ spi.caller = << >> \/ ~HasRun("work")
    /\ \E r \in { pmw3610_report_data([DeviceData EXCEPT !.sw_smart_flag = fl],
                                      now, buf, {}) } :
           spi' = [spi EXCEPT !.log = LogAtBegin, !.work = TaggedOps(r.t, "work")]
    /\ UNCHANGED << ready, async_init_step, err, sw_smart_flag, dx, dy, last_smp_time,
                    last_rpt_time, cpi, irq_enabled, init_work, trigger_work, now,
                    burst, init_log, init_times, aux_written, automouse, busTrace,
                    events, lastCall >>

\* the caller's thread makes its next transaction
CallerStep ==
    /\ spi.caller # << >>
    /\ spi' = [spi EXCEPT !.log = Append(@, Head(spi.caller)), !.caller = Tail(@)]
    /\ UNCHANGED << ready, async_init_step, err, sw_smart_flag, dx, dy, last_smp_time,
                    last_rpt_time, cpi, irq_enabled, init_work, trigger_work, now,
                    burst, init_log, init_times, aux_written, automouse, busTrace,
                    events, lastCall >>

\* the work queue thread makes its next transaction
WorkStep ==
    /\ spi.work # << >>
    /\ spi' = [spi EXCEPT !.log = Append(@, Head(spi.work)), !.work = Tail(@)]
    /\ UNCHANGED << ready, async_init_step, err, sw_smart_flag, dx, dy, last_smp_time,
                    last_rpt_time, cpi, irq_enabled, init_work, trigger_work, now,
                    burst, init_log, init_times, aux_written, automouse, busTrace,
                    events, lastCall >>

\* the values a caller sets that the driver takes
TakenValues(attr) ==
    CASE attr = "PMW3610_ATTR_CPI" -> {200, 3200}
      [] attr = "PMW3610_ATTR_RUN_DOWNSHIFT_TIME" -> {32}
      [] attr = "PMW3610_ATTR_REST1_DOWNSHIFT_TIME" -> {640}
      [] attr = "PMW3610_ATTR_REST2_DOWNSHIFT_TIME" -> {12800}
      [] OTHER -> {10}

RaceNext ==
    \/ pmw3610_async_init({}, GoodChip)
    \/ Tick
    \/ \E attr \in Attributes : \E val \in TakenValues(attr) : CallerBegins(attr, val)
    \/ \E buf \in Packets, fl \in BOOLEAN : WorkBegins(buf, fl)
    \/ CallerStep
    \/ WorkStep

RaceSpec == Init /\ [][RaceNext]_vars


----------------------------------------------------------------------------
(* What a state shows of the handler that ran last. *)

\* the transactions of a trace that the bus failed
FailedOps(t) == {i \in DOMAIN t : t[i].err # 0}

IsClockWrite(op) == op.kind = "write" /\ op.addr = PMW3610_REG_SPI_CLK_ON_REQ

\* the writes to SPI_CLK_ON_REQ of a trace, in order
ClockWrites(t) == SelectSeq(t, IsClockWrite)

\* an init step ran last
InitRun == lastCall.op = "async_init"

\* its function returned an error
InitStepFailed == InitRun /\ lastCall.ret # 0

\* a transaction whose result the step function tests has failed
CheckedOpFailed == \E i \in DOMAIN busTrace : busTrace[i].err # 0 /\ ~IsClockWrite(busTrace[i])

\* the observation register was read, with a low nibble other than 0xF
BadSelfTest ==
    \E i \in DOMAIN busTrace :
        /\ busTrace[i].kind = "read" /\ busTrace[i].addr = PMW3610_REG_OBSERVATION
        /\ busTrace[i].err = 0 /\ busTrace[i].val % 16 # 15

\* the product id was read, and is not the PMW3610's
BadProductId ==
    \E i \in DOMAIN busTrace :
        /\ busTrace[i].kind = "read" /\ busTrace[i].addr = PMW3610_REG_PRODUCT_ID
        /\ busTrace[i].err = 0 /\ busTrace[i].val # 62

AllSteps ==
    << ASYNC_INIT_STEP_POWER_UP, ASYNC_INIT_STEP_CLEAR_OB1, ASYNC_INIT_STEP_CHECK_OB1,
       ASYNC_INIT_STEP_CONFIGURE >>

\* a report cycle ran last and read its burst packet; lastCall.arg holds the
\* decoded sample x, y and dx, dy, last_smp_time, last_rpt_time as the cycle
\* found them
Sampled == lastCall.op = "report" /\ lastCall.ret = 0

Interval == CONFIG_PMW3610_REPORT_INTERVAL_MIN
SinceSample == now - lastCall.arg.last_smp_time
SinceReport == now - lastCall.arg.last_rpt_time

\* the value the cycle reported on an axis, 0 if it reported none
Emitted(code) ==
    IF \E i \in DOMAIN events : events[i].code = code
    THEN events[CHOOSE i \in DOMAIN events : events[i].code = code].value
    ELSE 0

\* the events are one emission of (rx, ry): an event per nonzero axis, X first
OneEmission(rx, ry) ==
    /\ Len(events) = (IF rx # 0 THEN 1 ELSE 0) + (IF ry # 0 THEN 1 ELSE 0)
    /\ rx # 0 => events[1].code = "x" /\ events[1].value = rx
    /\ ry # 0 => events[Len(events)].code = "y" /\ events[Len(events)].value = ry

Clamp16(v) == IF v < -32768 THEN -32768 ELSE IF v > 32767 THEN 32767 ELSE v

----------------------------------------------------------------------------
(* Bring-up. *)

\* C1: when the function of an init step returns an error -- and it does when
\* a transaction it tests fails, when the observation register reads with a
\* low nibble other than 0xF, and when the product id is wrong -- the error is
\* recorded in err, async_init_step stays at the failed step, no init step is
\* scheduled, ready is false and the interrupt is not enabled; and from then
\* on none of this changes.
C1_InitErrorHalts ==
    /\ [](InitRun /\ (CheckedOpFailed \/ BadSelfTest \/ BadProductId) => InitStepFailed)
    /\ [](InitStepFailed =>
            /\ err = lastCall.ret
            /\ async_init_step = lastCall.arg[1]
            /\ ~init_work.pending /\ ~ready /\ ~irq_enabled /\ ~trigger_work)
    /\ [][err # 0 =>
            /\ err' = err /\ async_init_step' = async_init_step /\ init_log' = init_log
            /\ ~init_work'.pending /\ ~ready' /\ ~irq_enabled']_vars

\* the self-test read 0x0E, the bring-up stopped at that step, and a caller
\* has since been turned away
C1_Witness ==
    /\ err = -EINVAL /\ async_init_step = ASYNC_INIT_STEP_CHECK_OB1
    /\ init_log = << 0, 1, 2 >> /\ ~init_work.pending /\ ~ready
    /\ lastCall.op = "attr_set"

\* C2: ready is true only when async_init_step is ASYNC_INIT_STEP_COUNT, the
\* four steps having run in order, and err is 0; once true, ready stays true.
C2_ReadyOnlyWhenDone ==
    /\ [](ready => async_init_step = ASYNC_INIT_STEP_COUNT /\ err = 0
                   /\ init_log = AllSteps)
    /\ [][ready => ready']_vars

\* the device is ready and has since processed a motion sample
C2_Witness == ready /\ Sampled /\ now > 265

\* C3: the interrupt is enabled and the report work is submitted only when
\* ready is true; while ready is false no burst read has been made, the
\* accumulators and the report times are untouched, no event is reported, and
\* pmw3610_report_data returns -EBUSY for every packet without a transaction
\* and without a change of the data.
C3_NoReportBeforeReady ==
    /\ irq_enabled => ready
    /\ trigger_work => ready
    /\ ~ready =>
        /\ dx = 0 /\ dy = 0 /\ last_smp_time = 0 /\ last_rpt_time = 0
        /\ ~sw_smart_flag /\ events = << >> /\ lastCall.op # "report"
        /\ \A i \in DOMAIN busTrace : busTrace[i].addr # PMW3610_REG_MOTION_BURST
        /\ \A buf \in Packets, f \in OneFault(4) :
              pmw3610_report_data(DeviceData, now, buf, f) =
                  [ret |-> -EBUSY, d |-> DeviceData, t |-> << >>, events |-> << >>,
                   x |-> 0, y |-> 0]

\* the configure step has failed on the bus: the device is not ready, and stays so
C3_Witness ==
    /\ ~ready /\ async_init_step = ASYNC_INIT_STEP_CONFIGURE /\ err = -EIO
    /\ InitRun /\ Len(busTrace) > 4

\* an init step met a failed transaction or a wrong answer of the sensor, or
\* the configured cpi is out of range
C4_Disturbed ==
    \/ InitRun /\ (FailedOps(busTrace) # {} \/ BadSelfTest \/ BadProductId)
    \/ cpi < 200 \/ cpi > 3200

----------------------------------------------------------------------------
(* Register access and configuration. *)

\* set_sample_time and set_downshift_time touch the bus only through one call
\* of pmw3610_write
WriteCalled ==
    lastCall.op \in {"set_sample_time", "set_downshift_time"} /\ busTrace # << >>

\* C5: after a call of pmw3610_write, successful or not, the last write to
\* SPI_CLK_ON_REQ is the disable command, and the call returns the result of
\* the inner register write.
C5_WriteDisablesClock ==
    WriteCalled =>
        /\ ClockWrites(busTrace) # << >>
        /\ ClockWrites(busTrace)[Len(ClockWrites(busTrace))].val = 181
        /\ Len(busTrace) >= 2 /\ lastCall.ret = busTrace[2].err

\* the inner write of a pmw3610_write has failed
C5_Witness ==
    /\ WriteCalled /\ lastCall.op = "set_sample_time" /\ lastCall.ret = -EIO
    /\ Len(busTrace) >= 2 /\ busTrace[1].err = 0 /\ busTrace[2].err # 0

\* the range set_downshift_time accepts for a register: [unit, 255 * unit]
C6_Unit(reg) ==
    CASE reg = PMW3610_REG_RUN_DOWNSHIFT -> 32
      [] reg = PMW3610_REG_REST1_DOWNSHIFT -> 16 * CONFIG_PMW3610_REST1_SAMPLE_TIME_MS
      [] reg = PMW3610_REG_REST2_DOWNSHIFT -> 128 * CONFIG_PMW3610_REST2_SAMPLE_TIME_MS
      [] OTHER -> 0

\* C6: set_cpi with a cpi outside [200, 3200], set_sample_time with a time
\* outside [10, 2550] and set_downshift_time with a time outside
\* [unit, 255 * unit] return -EINVAL, and set_downshift_time with a register
\* that has no downshift time returns -ENOTSUP, each without a transaction.
C6_ValidatedBeforeBus ==
    /\ lastCall.op = "set_cpi" /\ (lastCall.arg.val < 200 \/ lastCall.arg.val > 3200)
          => lastCall.ret = -EINVAL /\ busTrace = << >>
    /\ lastCall.op = "set_sample_time"
          /\ (lastCall.arg.val < 10 \/ lastCall.arg.val > 2550)
          => lastCall.ret = -EINVAL /\ busTrace = << >>
    /\ lastCall.op = "set_downshift_time" /\ C6_Unit(lastCall.arg.reg) # 0
          /\ (\/ lastCall.arg.val < C6_Unit(lastCall.arg.reg)
              \/ lastCall.arg.val > 255 * C6_Unit(lastCall.arg.reg))
          => lastCall.ret = -EINVAL /\ busTrace = << >>
    /\ lastCall.op = "set_downshift_time" /\ C6_Unit(lastCall.arg.reg) = 0
          => lastCall.ret = -ENOTSUP /\ busTrace = << >>

\* a time just below the unit of the rest1 downshift has been refused
C6_Witness ==
    /\ lastCall.op = "set_downshift_time"
    /\ lastCall.arg = [reg |-> PMW3610_REG_REST1_DOWNSHIFT, val |-> 639]
    /\ lastCall.ret = -EINVAL /\ busTrace = << >>

----------------------------------------------------------------------------
(* The attribute interface. *)

KnownAttributes == Attributes \ {"SENSOR_ATTR_SAMPLING_FREQUENCY"}

\* the configuration function an attribute stands for, called with the value
C7_Corresponding(attr, val, f) ==
    CASE attr = "PMW3610_ATTR_CPI" -> set_cpi(f, << >>, val)
      [] attr = "PMW3610_ATTR_RUN_DOWNSHIFT_TIME" ->
             set_downshift_time(f, << >>, "RUN_DOWNSHIFT", val)
      [] attr = "PMW3610_ATTR_REST1_DOWNSHIFT_TIME" ->
             set_downshift_time(f, << >>, "REST1_DOWNSHIFT", val)
      [] attr = "PMW3610_ATTR_REST2_DOWNSHIFT_TIME" ->
             set_downshift_time(f, << >>, "REST2_DOWNSHIFT", val)
      [] attr = "PMW3610_ATTR_REST1_SAMPLE_TIME" ->
             set_sample_time(f, << >>, "REST1_RATE", val)
      [] attr = "PMW3610_ATTR_REST2_SAMPLE_TIME" ->
             set_sample_time(f, << >>, "REST2_RATE", val)
      [] attr = "PMW3610_ATTR_REST3_SAMPLE_TIME" ->
             set_sample_time(f, << >>, "REST3_RATE", val)

\* the call returned what the configuration function of its attribute returns
\* on a bus that fails the transactions seen to fail, after the same transactions
C7_ResultOfConfig ==
    C7_Corresponding(lastCall.arg.attr, lastCall.arg.val, FailedOps(busTrace)) =
        [ret |-> lastCall.ret, t |-> busTrace]

C7_Refused(e) == lastCall.ret = e /\ busTrace = << >>

\* C7 as amended: a call on a channel other than SENSOR_CHAN_ALL returns
\* -ENOTSUP without a transaction, ready or not.  On SENSOR_CHAN_ALL, a call
\* while ready is false returns -EBUSY without a transaction, whatever the
\* attribute; while ready is true it returns exactly the result of the
\* attribute's configuration function, and -ENOTSUP without a transaction for
\* an unknown attribute.
C7_AttrSetOnChannelAll ==
    lastCall.op = "attr_set" =>
        IF lastCall.arg.chan # "SENSOR_CHAN_ALL" THEN C7_Refused(-ENOTSUP)
        ELSE IF ~ready THEN C7_Refused(-EBUSY)
        ELSE IF lastCall.arg.attr \in KnownAttributes THEN C7_ResultOfConfig
        ELSE C7_Refused(-ENOTSUP)

\* C7 as stated: a call for one of the seven attributes returns -EBUSY without
\* a transaction while ready is false and the result of the configuration
\* function while ready is true; a call for an unknown attribute on a ready
\* device returns -ENOTSUP without a transaction.
C7_AsStated ==
    lastCall.op = "attr_set" =>
        /\ lastCall.arg.attr \in KnownAttributes /\ ~ready => C7_Refused(-EBUSY)
        /\ lastCall.arg.attr \in KnownAttributes /\ ready => C7_ResultOfConfig
        /\ lastCall.arg.attr \notin KnownAttributes /\ ready => C7_Refused(-ENOTSUP)

\* a cpi has been set on another channel before the device was ready, and
\* refused as not supported
C7_Witness ==
    /\ lastCall.op = "attr_set" /\ ~ready
    /\ lastCall.arg = [chan |-> "SENSOR_CHAN_ACCEL_X", attr |-> "PMW3610_ATTR_CPI",
                       val |-> 800]
    /\ lastCall.ret = -ENOTSUP /\ busTrace = << >>

----------------------------------------------------------------------------
(* The report cycle. *)

\* the accumulators after the sample was added, had nothing been purged
SumX == lastCall.arg.dx + lastCall.arg.x
SumY == lastCall.arg.dy + lastCall.arg.y

\* the accumulators after the sample was added: what is left plus what was
\* reported
AddedX == dx + Emitted("x")
AddedY == dy + Emitted("y")

\* what is emitted when the accumulators hold (sx, sy) and the report is due
EmitsAll(sx, sy) ==
    /\ OneEmission(Clamp16(sx), Clamp16(sy))
    /\ (Clamp16(sx) # 0 \/ Clamp16(sy) # 0) =>
           dx = 0 /\ dy = 0 /\ last_rpt_time = now

\* a sample that comes less than the interval after the last emission is
\* added to the accumulators and nothing is emitted
GatedSampleIsKept ==
    Sampled /\ SinceReport < Interval =>
        /\ events = << >>
        /\ dx = SumX /\ dy = SumY
        /\ last_rpt_time = lastCall.arg.last_rpt_time

\* C8 as amended: a sample less than the interval after the last emission
\* emits nothing and is summed in the accumulators.  A sample at least the
\* interval after the last emission emits, in one emission, the accumulated
\* deltas plus its own if it comes less than the interval after the previous
\* sample, and its own delta alone otherwise, the accumulated deltas being
\* dropped.
C8_GateAndSum ==
    /\ GatedSampleIsKept
    /\ Sampled /\ SinceReport >= Interval =>
          IF SinceSample < Interval
          THEN EmitsAll(SumX, SumY)
          ELSE EmitsAll(lastCall.arg.x, lastCall.arg.y)

\* C8 as stated: a sample less than the interval after the last emission
\* emits nothing and is summed in the accumulators, and the first sample at
\* least the interval after the last emission emits the whole sum in one
\* emission.
C8_AsStated ==
    /\ GatedSampleIsKept
    /\ Sampled /\ SinceReport >= Interval => EmitsAll(SumX, SumY)

\* deltas (3, 0) and (4, 0) have been reported as one X event of value 7
C8_Witness ==
    /\ Sampled /\ lastCall.arg.dx = 3 /\ lastCall.arg.dy = 0
    /\ lastCall.arg.x = 4 /\ lastCall.arg.y = 0
    /\ SinceReport >= Interval
    /\ events = << [code |-> "x", value |-> 7, sync |-> TRUE] >>

\* C9 as amended: when a sample comes at least the interval after the
\* previous sample, the accumulators are zeroed before it is added and hold
\* its delta alone; when it comes less than the interval after, the earlier
\* contribution is kept.
C9_StalePurge ==
    Sampled =>
        IF SinceSample >= Interval
        THEN AddedX = lastCall.arg.x /\ AddedY = lastCall.arg.y
        ELSE AddedX = SumX /\ AddedY = SumY

\* C9 as stated: the accumulators are zeroed when the time since the previous
\* sample exceeds the interval, and the earlier contribution is kept when it
\* does not exceed it.
C9_AsStated ==
    Sampled =>
        IF SinceSample > Interval
        THEN AddedX = lastCall.arg.x /\ AddedY = lastCall.arg.y
        ELSE AddedX = SumX /\ AddedY = SumY

\* a held-back delta has been dropped by a sample exactly one interval later
C9_Witness ==
    /\ Sampled /\ SinceSample = Interval /\ lastCall.arg.dx # 0
    /\ lastCall.arg.x # 0 /\ AddedX = lastCall.arg.x /\ AddedX # SumX

\* the accumulators as the report step finds them
C10_CandidateX == (IF SinceSample >= Interval THEN 0 ELSE lastCall.arg.dx) + lastCall.arg.x
C10_CandidateY == (IF SinceSample >= Interval THEN 0 ELSE lastCall.arg.dy) + lastCall.arg.y

\* C10: no event is reported with value 0; and when a report is due and both
\* clamped accumulators are 0, nothing is reported, and the report step leaves
\* the accumulators and last_rpt_time as it found them.
C10_NoZeroEvent ==
    /\ \A i \in DOMAIN events : events[i].value # 0
    /\ Sampled /\ SinceReport >= Interval
          /\ Clamp16(C10_CandidateX) = 0 /\ Clamp16(C10_CandidateY) = 0
          => /\ events = << >>
             /\ dx = C10_CandidateX /\ dy = C10_CandidateY
             /\ last_rpt_time = lastCall.arg.last_rpt_time

\* a delta of 3 was held back and a delta of -3 brought the sum to 0 when the
\* report was due: nothing was reported
C10_Witness ==
    /\ Sampled /\ SinceReport >= Interval /\ SinceSample < Interval
    /\ lastCall.arg.dx = 3 /\ lastCall.arg.x = -3
    /\ lastCall.arg.dy = 0 /\ lastCall.arg.y = 0
    /\ events = << >> /\ dx = 0

----------------------------------------------------------------------------
(* The clamp of the reported values. *)

\* C11: every value a cycle reports is the accumulator of its axis (what was
\* held, purged if stale, plus the sample) clamped to -32768..32767, and
\* right after a cycle that reported something both accumulators are 0,
\* whatever they held before.
C11_ClampAndReset ==
    (Sampled /\ events # << >>) =>
        /\ \A i \in DOMAIN events :
               events[i].value = Clamp16(IF events[i].code = "x" THEN C10_CandidateX
                                         ELSE C10_CandidateY)
        /\ dx = 0 /\ dy = 0

\* an accumulated dx of 40000 is reported as 32767, and dx is 0 afterwards
C11_Witness ==
    /\ Sampled /\ C10_CandidateX = 40000 /\ lastCall.arg.dy # 0
    /\ \E i \in DOMAIN events : events[i].code = "x" /\ events[i].value = 32767
    /\ dx = 0 /\ dy = 0

----------------------------------------------------------------------------
(* The framing of one emission. *)

\* the cycle reported an event for this axis
HasEvent(code) == \E i \in DOMAIN events : events[i].code = code

\* C12: the events of one cycle are at most an X event followed by a Y event;
\* the X event is there exactly when the clamped X accumulator is not 0, the
\* Y event exactly when the clamped Y accumulator is not 0; an event has its
\* sync flag set exactly when it is the last of the cycle, so the X event is
\* not synced exactly when a Y event follows it.
C12_PairFraming ==
    /\ Len(events) <= 2
    /\ \A i, j \in DOMAIN events :
           /\ i # j => events[i].code # events[j].code
           /\ (events[i].code = "x" /\ events[j].code = "y") => i < j
    /\ \A i \in DOMAIN events :
           /\ events[i].code \in {"x", "y"}
           /\ events[i].sync <=> (i = Len(events))
    /\ (Sampled /\ events # << >>) =>
           /\ HasEvent("x") <=> (Clamp16(C10_CandidateX) # 0)
           /\ HasEvent("y") <=> (Clamp16(C10_CandidateY) # 0)

\* a cycle that reported X without sync and then Y with sync
C12_Witness ==
    /\ Sampled /\ Len(events) = 2
    /\ events[1].code = "x" /\ ~events[1].sync
    /\ events[2].code = "y" /\ events[2].sync

----------------------------------------------------------------------------
(* A failed burst read. *)

\* the last handler was a report cycle whose burst read failed
BurstReadFailed ==
    /\ lastCall.op = "report" /\ lastCall.ret # 0
    /\ Len(busTrace) = 1
    /\ busTrace[1].kind = "read" /\ busTrace[1].addr = PMW3610_REG_MOTION_BURST
    /\ busTrace[1].err # 0

----------------------------------------------------------------------------
(* The decode of the two deltas. *)

\* the 12-bit two's complement value of nibble << 8 | low
TwelveBit(nibble, low) ==
    LET u == nibble * 256 + low IN IF u < 2048 THEN u ELSE u - 4096

\* C14: for every low byte and every high nibble, x is the 12-bit two's
\* complement value of the upper four bits of XY_H over X_L, and y that of
\* the lower four bits of XY_H over Y_L; both lie in -2048..2047.
C14_TwelveBitDecode ==
    lastCall.op = "decode" =>
        LET buf == lastCall.arg.buf
        IN  /\ lastCall.arg.x = TwelveBit(buf.xy_h \div 16, buf.x_l)
            /\ lastCall.arg.y = TwelveBit(buf.xy_h % 16, buf.y_l)
            /\ lastCall.arg.x \in -2048..2047
            /\ lastCall.arg.y \in -2048..2047

\* 0xFFF decoded to -1 on x, next to 0x800 decoded to -2048 on y
C14_Witness ==
    /\ lastCall.op = "decode"
    /\ lastCall.arg.buf.x_l = 255 /\ lastCall.arg.buf.xy_h = 248
    /\ lastCall.arg.buf.y_l = 0
    /\ lastCall.arg.x = -1 /\ lastCall.arg.y = -2048

----------------------------------------------------------------------------
(* The register value of a downshift time. *)

\* set_downshift_time took the time: it went on to the bus
DownshiftAccepted ==
    /\ lastCall.op = "set_downshift_time"
    /\ lastCall.ret # -EINVAL /\ lastCall.ret # -ENOTSUP

\* C15: when set_downshift_time takes a time, the value it writes to the
\* register is floor(time / unit), unit being 32 for the run downshift,
\* 16 * CONFIG_PMW3610_REST1_SAMPLE_TIME_MS for rest1 and
\* 128 * CONFIG_PMW3610_REST2_SAMPLE_TIME_MS for rest2; the value lies in
\* 1..255, so nothing is lost in the uint8_t; and a run downshift time
\* v * 32 with v in 1..255 is written as v.
C15_DownshiftValue ==
    DownshiftAccepted =>
        LET unit == C6_Unit(lastCall.arg.reg)
            time == lastCall.arg.val
        IN  /\ unit > 0
            /\ Len(busTrace) >= 2
            /\ busTrace[2].kind = "write" /\ busTrace[2].addr = lastCall.arg.reg
            /\ busTrace[2].val \in 1..255
            /\ busTrace[2].val * unit <= time
            /\ time < (busTrace[2].val + 1) * unit
            /\ (lastCall.arg.reg = PMW3610_REG_RUN_DOWNSHIFT /\ time % 32 = 0)
                   => busTrace[2].val * 32 = time

\* the run downshift time 255 * 32 written as 255
C15_Witness ==
    /\ DownshiftAccepted /\ lastCall.ret = 0
    /\ lastCall.arg = [reg |-> PMW3610_REG_RUN_DOWNSHIFT, val |-> 8160]
    /\ busTrace[2].val = 255

----------------------------------------------------------------------------
(* The delays of the bring-up. *)

\* the uptime between the invocation of the i-th init step and that of the
\* step after it
StepGap(i) == init_times[i + 1] - init_times[i]

\* C16 as stated: at least 10 ms plus the extra margin pass between PowerUp
\* and ClearSelfTest, at least 200 ms between ClearSelfTest and
\* CheckSelfTest, and at least 50 ms between CheckSelfTest and Configure.
C16_AsStated ==
    /\ Len(init_times) >= 2 =>
           StepGap(1) >= 10 + CONFIG_PMW3610_INIT_POWER_UP_EXTRA_DELAY_MS
    /\ Len(init_times) >= 3 => StepGap(2) >= 200
    /\ Len(init_times) >= 4 => StepGap(3) >= 50

\* C16 as amended: the delay listed for a step passes before that step runs.
\* PowerUp runs at least 10 ms plus the extra margin after pmw3610_init has
\* scheduled it (at uptime 0 here), at least 200 ms pass between PowerUp and
\* ClearSelfTest, at least 50 ms between ClearSelfTest and CheckSelfTest, and
\* Configure is scheduled without a delay after CheckSelfTest.
C16_DelayBeforeStep ==
    /\ Len(init_times) = Len(init_log)
    /\ Len(init_times) >= 1 =>
           init_times[1] >= 10 + CONFIG_PMW3610_INIT_POWER_UP_EXTRA_DELAY_MS
    /\ Len(init_times) >= 2 => StepGap(1) >= 200
    /\ Len(init_times) >= 3 => StepGap(2) >= 50
    /\ Len(init_times) >= 4 => StepGap(3) >= 0
    /\ (init_work.pending /\ Len(init_times) >= 1) =>
           init_work.due = init_times[Len(init_times)] + async_init_delay(async_init_step)

\* the four steps run at their earliest: 50 ms between ClearSelfTest and
\* CheckSelfTest, and Configure in the same millisecond as CheckSelfTest
C16_Witness ==
    /\ ready /\ init_log = AllSteps
    /\ init_times = << 10 + CONFIG_PMW3610_INIT_POWER_UP_EXTRA_DELAY_MS,
                       210 + CONFIG_PMW3610_INIT_POWER_UP_EXTRA_DELAY_MS,
                       260 + CONFIG_PMW3610_INIT_POWER_UP_EXTRA_DELAY_MS,
                       260 + CONFIG_PMW3610_INIT_POWER_UP_EXTRA_DELAY_MS >>

----------------------------------------------------------------------------
(* The bus writes of set_cpi. *)

\* the five writes of set_cpi for the register value v, without their results
CpiWrites(v) ==
    << [addr |-> PMW3610_REG_SPI_CLK_ON_REQ, val |-> PMW3610_SPI_CLOCK_CMD_ENABLE],
       [addr |-> "0x7F", val |-> 255],
       [addr |-> PMW3610_REG_RES_STEP, val |-> v],
       [addr |-> "0x7F", val |-> 0],
       [addr |-> PMW3610_REG_SPI_CLK_ON_REQ, val |-> PMW3610_SPI_CLOCK_CMD_DISABLE] >>

\* the transaction is the write of w
IsWriteOf(op, w) == op.kind = "write" /\ op.addr = w.addr /\ op.val = w.val

\* the data writes of the trace of set_cpi that failed: places 2 to 4
FailedDataWrites(t) == {i \in DOMAIN t : i \in 2..4 /\ t[i].err # 0}

\* the first n writes of set_cpi, followed by the write that disables the clock
CpiTraceCutAfter(t, v, n) ==
    /\ Len(t) = n + 1
    /\ \A i \in 1..n : IsWriteOf(t[i], CpiWrites(v)[i])
    /\ IsWriteOf(t[n + 1], CpiWrites(v)[5])

\* C17: for a cpi in [200, 3200] the transactions of set_cpi are the write of
\* ENABLE to SPI_CLK_ON_REQ, of 0xFF to 0x7F, of floor(cpi / 200) to RES_STEP,
\* of 0x00 to 0x7F and of DISABLE to SPI_CLK_ON_REQ, and it returns 0, when
\* none of the three data writes fails; when one fails, the data writes after
\* it are left out, the write of DISABLE still follows it, and set_cpi
\* returns the result of the failed write.
C17_CpiWriteSequence ==
    (lastCall.op = "set_cpi" /\ lastCall.arg.val >= 200 /\ lastCall.arg.val <= 3200) =>
        LET v == lastCall.arg.val \div 200
            bad == FailedDataWrites(busTrace)
        IN  IF \A i \in 2..4 : i \in DOMAIN busTrace => busTrace[i].err = 0
            THEN CpiTraceCutAfter(busTrace, v, 4) /\ lastCall.ret = 0
            ELSE \E k \in 2..4 :
                     /\ k \in bad /\ \A j \in bad : k <= j
                     /\ CpiTraceCutAfter(busTrace, v, k)
                     /\ lastCall.ret = busTrace[k].err /\ lastCall.ret # 0

\* set_cpi(3200) with the write to RES_STEP failed: three writes and DISABLE
C17_Witness ==
    /\ lastCall.op = "set_cpi" /\ lastCall.arg.val = 3200
    /\ Len(busTrace) = 4 /\ busTrace[3].err # 0 /\ busTrace[3].val = 16
    /\ busTrace[4].val = PMW3610_SPI_CLOCK_CMD_DISABLE /\ busTrace[4].err = 0
    /\ lastCall.ret = -EIO

----------------------------------------------------------------------------
(* The interrupt line and the report work. *)

----------------------------------------------------------------------------
(* The smart algorithm. *)

IsAuxWrite(op) == op.kind = "write" /\ op.addr = "0x32"

\* the writes to register 0x32 of a trace, in order
AuxWrites(t) == SelectSeq(t, IsAuxWrite)

\* the latch: a cycle that finds the flag set and a shutter below 45 writes
\* 0x00 to register 0x32 and clears the flag; one that finds it clear and a
\* shutter above 45 writes 0x80 and sets it; any other cycle, one with
\* shutter 45 among them, writes nothing to the register and leaves the flag;
\* no cycle writes the register twice.
C20_Latch ==
    Sampled =>
        LET sh == Shutter(lastCall.arg.buf)
            was == lastCall.arg.sw_smart_flag
            w == AuxWrites(busTrace)
        IN  /\ Len(w) <= 1
            /\ (was /\ sh < 45) => (Len(w) = 1 /\ w[1].val = 0 /\ ~sw_smart_flag)
            /\ (~was /\ sh > 45) => (Len(w) = 1 /\ w[1].val = 128 /\ sw_smart_flag)
            /\ ~((was /\ sh < 45) \/ (~was /\ sh > 45)) =>
                   (w = << >> /\ sw_smart_flag = was)

\* the flag is set exactly when the last value written to register 0x32 by a
\* write that got through is 0x80
C20_FlagTracksRegister == sw_smart_flag <=> (aux_written = 128)

\* C20: the smart mode is a hysteresis latch on the shutter value, with at
\* most one switch per sample, and after any sequence of samples
\* sw_smart_flag is set exactly when the last value successfully written to
\* register 0x32 is 0x80.
C20_SmartLatch == C20_Latch /\ C20_FlagTracksRegister

\* a cycle with shutter 46 has set the flag although its write of 0x80 to
\* register 0x32 failed: the register has never been written
C20_Witness ==
    /\ Sampled /\ ~lastCall.arg.sw_smart_flag /\ Shutter(lastCall.arg.buf) = 46
    /\ Len(AuxWrites(busTrace)) = 1 /\ AuxWrites(busTrace)[1].err # 0
    /\ sw_smart_flag /\ aux_written = -1

----------------------------------------------------------------------------
(* The automouse layer. *)

\* C21: whatever the order in which the statements of the report path and
\* the expiry function of the timer run, an active layer is eventually
\* deactivated once motion has stopped; starting the timer sets it to its full
\* time whatever was left, and its expiry leaves the layer inactive,
\* automouse_triggered false and the timer stopped, however many activations
\* came before; and whenever the timer is running automouse_triggered is true
\* and the layer is active.
C21_Automouse ==
    /\ automouse.layer ~> ~automouse.layer
    /\ [][(automouse.pc = "timer_start" /\ automouse'.pc = "idle") =>
              automouse'.timer = CONFIG_PMW3610_AUTOMOUSE_TIMEOUT_MS]_vars
    /\ [][(automouse.timer > 0 /\ automouse'.timer = 0) =>
              (~automouse'.layer /\ ~automouse'.triggered)]_vars
    /\ [](automouse.timer > 0 => (automouse.triggered /\ automouse.layer))

\* the timer expired between two statements of a second activation: the
\* report path is back at rest, the timer runs and the layer is active, and
\* automouse_triggered is false
C21_Witness ==
    /\ automouse.pc = "idle" /\ automouse.timer > 0
    /\ automouse.layer /\ ~automouse.triggered

----------------------------------------------------------------------------
(* The bus clock under two threads. *)

IsEnable(e) == IsClockWrite(e.op) /\ e.op.val = PMW3610_SPI_CLOCK_CMD_ENABLE
IsDisable(e) == IsClockWrite(e.op) /\ e.op.val = PMW3610_SPI_CLOCK_CMD_DISABLE

\* a data write of pmw3610_write or set_cpi
IsDataWrite(e) == e.op.kind = "write" /\ ~IsClockWrite(e.op)

\* the i-th transaction of the log comes after an ENABLE written by its own
\* thread, with no DISABLE of either thread written since
ClockOnAt(i) ==
    \E j \in 1..(i - 1) :
        /\ IsEnable(spi.log[j]) /\ spi.log[j].who = spi.log[i].who
        /\ \A k \in (j + 1)..(i - 1) : ~IsDisable(spi.log[k])

\* C22: whatever the order in which the transactions of an attribute-set call
\* and of a report cycle come on the bus, every data write of pmw3610_write
\* and of set_cpi comes after the ENABLE written by its own call with no
\* DISABLE written in between, by that call or by the other thread's.
C22_WritesUnderClock ==
    \A i \in DOMAIN spi.log : IsDataWrite(spi.log[i]) => ClockOnAt(i)

\* set_cpi wrote ENABLE, the report cycle then wrote ENABLE, 0x32 and
\* DISABLE, and set_cpi went on to write RES_STEP with the clock disabled
C22_Witness ==
    \E i \in DOMAIN spi.log :
        /\ spi.log[i].who = "caller" /\ spi.log[i].op.addr = PMW3610_REG_RES_STEP
        /\ ~ClockOnAt(i)
        /\ \E j \in 1..(i - 1), k \in 1..(i - 1) :
               /\ j < k
               /\ IsEnable(spi.log[j]) /\ spi.log[j].who = "caller"
               /\ IsDisable(spi.log[k]) /\ spi.log[k].who = "work"

====
